---- MODULE Spec2Model ----
(***************************************************************************)
(* Model of package sharding: the shard-to-server topology of Cluster      *)
(* (construction, Close, the DB, Shards and Shard lookups, SubCluster) and *)
(* the concurrent fan-out calls ForEachDB, ForEachShard and ForEachNShards *)
(* on a Cluster and on a SubCluster, by one caller and by two.             *)
(*                                                                         *)
(* A *pg.DB handle is a record [opt, params]: opt is the *pg.Options the   *)
(* handle shares with every handle derived from it, params the values      *)
(* attached with WithParam.  Go pointer identity of handles is record      *)
(* equality: the cluster never derives the same handle twice.  Every       *)
(* server handed to the cluster comes from its own pg.Connect, so distinct *)
(* servers have distinct Options.                                          *)
(***************************************************************************)
EXTENDS Integers, Sequences, FiniteSets, TLC

VARIABLES
    pc,      \* where the caller is: "new", "panic", "ready", "wait", "returned"
    cl,      \* the Cluster, once constructed
    out,     \* the last finished call: its arguments and what it returned
    call,    \* the fan-out call in progress: its operation and its n
    errCh,   \* ForEachDB's errCh
    wg,      \* ForEachDB's WaitGroup counter
    task,    \* the goroutine ForEachDB runs for each server: its position, its
             \* locals, the goroutines it started, and (history) how often
             \* it has invoked fn on its server and on each shard
    fnErrs,  \* history: the errors the caller's fn has returned in this call
    other    \* a second caller on the same Cluster: its pc, out, call, errCh,
             \* wg, task and fnErrs while the first caller's are the ones above

vars == <<pc, cl, out, call, errCh, wg, task, fnErrs, other>>

fanVars == <<call, errCh, wg, task, fnErrs, other>>

----------------------------------------------------------------------------
(* Bounds of the explored inputs. *)

\* longest placement list handed to NewClusterWithGen
MaxDBs == 3
\* largest shard count handed to NewClusterWithGen
MaxNShards == 6
\* lookups are tried for every number in -MaxNumber..MaxNumber
MaxNumber == 9

----------------------------------------------------------------------------
(* Values *)

Nil == [nil |-> TRUE]

\* the physical servers: one handle per pg.Connect
ServerNames == {"A", "B"}

Server(name) == [opt |-> name, params |-> <<>>]

Servers == {Server(name) : name \in ServerNames}

\* (*pg.DB).Options: the options pointer, shared by derived handles
Options(db) == db.opt

\* (*pg.DB).WithParam: a new handle on the same options with one more param
WithParam(db, param, value) ==
    [db EXCEPT !.params = Append(@, <<param, value>>)]

\* a run-time panic, which ends the call without a value
Panic(msg) == [panic |-> msg]

IsPanic(v) == "panic" \in DOMAIN v

----------------------------------------------------------------------------
(* IdGen: only its maximum shard count and its epoch matter here. *)

Pow2(k) == 2 ^ k

\* IdGen.NumShards: the number of values of the shard field of an id
NumShards(gen) == Pow2(gen.shardBits)

DefaultIdGen == [shardBits |-> 11, epoch |-> 0]

\* the generators handed to NewClusterWithGen: none, or a custom one
Gens == {Nil, [shardBits |-> 1, epoch |-> 1], [shardBits |-> 2, epoch |-> 1]}

----------------------------------------------------------------------------
(* Go arithmetic *)

\* Go's %: the remainder has the sign of the dividend (b > 0)
GoRem(a, b) == IF a >= 0 THEN a % b ELSE -((-a) % b)

\* s[i] on a Go slice (0-based): out of range is a run-time panic
Index(s, i) ==
    IF i >= 0 /\ i < Len(s) THEN s[i + 1] ELSE Panic("index out of range")

Digit(d) == <<"0", "1", "2", "3", "4", "5", "6", "7", "8", "9">>[d + 1]

\* strconv.FormatInt(id, 10) for id >= 0, as the sequence of its digits
RECURSIVE FormatInt(_)
FormatInt(id) ==
    IF id < 10 THEN <<Digit(id)>> ELSE Append(FormatInt(id \div 10), Digit(id % 10))

----------------------------------------------------------------------------
(* Construction *)

\* the first loop of Cluster.init: the distinct servers, in order of first
\* appearance in dbs
RECURSIVE DistinctServers(_, _)
DistinctServers_SkipsNothing(dbs, acc) == acc \o dbs
DistinctServers(dbs, acc) ==
    IF dbs = <<>> THEN acc
    ELSE IF \E k \in 1..Len(acc) : acc[k] = Head(dbs)
         THEN DistinctServers(Tail(dbs), acc)
         ELSE DistinctServers(Tail(dbs), Append(acc, Head(dbs)))

newShard(c, db, id) ==
    LET name == <<"shard">> \o FormatInt(id)
    IN  WithParam(WithParam(WithParam(db, "shard_id", id), "shard", name),
                  "epoch", c.gen.epoch)

\* the placement of shard i of Cluster.init's second loop
PlacementWrong(c, i) == c.dbs[(i \div (Len(c.shards) \div Len(c.dbs))) + 1]
Placement(c, i) == c.dbs[(i % Len(c.dbs)) + 1]

init(c) ==
    [c EXCEPT !.servers = DistinctServers(c.dbs, <<>>),
              !.shards = [i \in 1..Len(c.shards) |->
                             newShard(c, Placement(c, i - 1), i - 1)]]

NewClusterWithGen_NoDivCheck(dbs, nshards, gen0) ==
    LET gen == IF gen0 = Nil THEN DefaultIdGen ELSE gen0
    IN  IF Len(dbs) = 0 THEN Panic("at least one db is required")
        ELSE IF nshards = 0 THEN Panic("at least on shard is required")
        ELSE IF Len(dbs) > NumShards(gen) \/ nshards > NumShards(gen)
             THEN Panic("too many shards")
        ELSE IF nshards < Len(dbs)
             THEN Panic("number of shards must be greater or equal number of dbs")
        ELSE init([gen |-> gen, servers |-> <<>>, dbs |-> dbs,
                   shards |-> [i \in 1..nshards |-> Nil]])

NewClusterWithGen(dbs, nshards, gen0) ==
    LET gen == IF gen0 = Nil THEN DefaultIdGen ELSE gen0
    IN  IF Len(dbs) = 0 THEN Panic("at least one db is required")
        ELSE IF nshards = 0 THEN Panic("at least on shard is required")
        ELSE IF Len(dbs) > NumShards(gen) \/ nshards > NumShards(gen)
             THEN Panic("too many shards")
        ELSE IF nshards < Len(dbs)
             THEN Panic("number of shards must be greater or equal number of dbs")
        ELSE IF nshards % Len(dbs) # 0
             THEN Panic("number of shards must be divideable by number of dbs")
        ELSE init([gen |-> gen, servers |-> <<>>, dbs |-> dbs,
                   shards |-> [i \in 1..nshards |-> Nil]])

----------------------------------------------------------------------------
(* Lookups *)

\* Cluster.DB
DB_ByServers(c, number) ==
    LET n1 == GoRem(number, Len(c.shards))
        n2 == GoRem(n1, Len(c.servers))
    IN  Index(c.servers, n2)
DB(c, number) ==
    LET n1 == GoRem(number, Len(c.shards))
        n2 == GoRem(n1, Len(c.dbs))
    IN  Index(c.dbs, n2)

\* Cluster.Shard
Shard(c, number) ==
    LET n1 == GoRem(number, Len(c.shards))
    IN  Index(c.shards, n1)

\* the server Cluster.Shards compares with db for the shard at index i
ShardsFilter_ByServers(c, i) == c.servers[(i % Len(c.servers)) + 1]
ShardsFilter(c, i) == c.dbs[(i % Len(c.dbs)) + 1]

\* the loop of Cluster.Shards from index i on; acc is the slice built so far
RECURSIVE ShardsLoop(_, _, _, _)
ShardsLoop(c, db, i, acc) ==
    IF i >= Len(c.shards) THEN acc
    ELSE ShardsLoop(c, db, i + 1,
                    IF ShardsFilter(c, i) = db
                    THEN Append(acc, c.shards[i + 1]) ELSE acc)

\* Cluster.Shards
Shards(c, db) == IF db = Nil THEN c.shards ELSE ShardsLoop(c, db, 0, <<>>)

\* the error (*pg.DB).Close returns on server db when it fails
CloseErr(db) == [closeErr |-> db]

\* the servers Cluster.Close ranges over
CloseTargets_Dbs(c) == c.dbs
CloseTargets(c) == c.servers

\* the loop of Cluster.Close over servers: closed lists the servers Close
\* was called on, failing is the set of servers whose Close returns an error
RECURSIVE CloseLoop(_, _, _, _)
CloseLoop(servers, failing, closed, retErr) ==
    IF servers = <<>> THEN [closed |-> closed, val |-> retErr]
    ELSE LET db == Head(servers)
             err == IF db \in failing THEN CloseErr(db) ELSE Nil
         IN  CloseLoop(Tail(servers), failing, Append(closed, db),
                       IF err # Nil /\ retErr = Nil THEN err ELSE retErr)

\* Cluster.Close
Close(c, failing) == CloseLoop(CloseTargets(c), failing, <<>>, Nil)

----------------------------------------------------------------------------
(* SubCluster *)

Abs(a) == IF a < 0 THEN -a ELSE a

\* Go's /: the quotient is truncated toward zero (b # 0)
GoDiv(a, b) ==
    IF (a >= 0) = (b > 0) THEN Abs(a) \div Abs(b) ELSE -(Abs(a) \div Abs(b))

\* if size > len(cl.shards) { size = len(cl.shards) }
ClampedSize_NoClamp(c, size) == size
ClampedSize(c, size) == IF size > Len(c.shards) THEN Len(c.shards) ELSE size

\* step := len(cl.shards) / size
Step_RoundsUp(c, size) == GoDiv(Len(c.shards) + size - 1, size)
Step(c, size) == GoDiv(Len(c.shards), size)

\* clusterId := int(number%int64(step)) * size
ClusterId_NotScaled(number, step, size) == GoRem(number, Abs(step))
ClusterId(number, step, size) == GoRem(number, Abs(step)) * size

\* the loop shards[i] = cl.shards[clusterId+i] and the SubCluster made of
\* the window, or the panic of the first index out of range
Window(c, clusterId, size) ==
    LET w == [i \in 1..size |-> Index(c.shards, clusterId + i - 1)]
    IN  IF \E i \in 1..size : IsPanic(w[i])
        THEN Panic("index out of range") ELSE [cl |-> c, shards |-> w]

\* Cluster.SubCluster
SubCluster(c, number, size0) ==
    LET size == ClampedSize(c, size0)
    IN  IF size = 0 THEN Panic("integer divide by zero")
        ELSE LET step == Step(c, size)
             IN  IF step = 0 THEN Panic("integer divide by zero")
                 ELSE IF size < 0 THEN Panic("makeslice: len out of range")
                 ELSE Window(c, ClusterId(number, step, size), size)

----------------------------------------------------------------------------
(* The program: construct a cluster, then look numbers up in it. *)

\* the placement lists tried: every list of at most MaxDBs servers
PlacementLists == UNION {[1..n -> Servers] : n \in 0..MaxDBs}

ShardCounts == -1..MaxNShards

Numbers == -MaxNumber..MaxNumber

NoCluster == [none |-> TRUE]

NoCall == [op |-> "none"]

\* a caller that has made no call yet
IdleCaller ==
    [pc |-> "ready", out |-> NoCall, call |-> NoCall, errCh |-> <<>>, wg |-> 0,
     task |-> <<>>, fnErrs |-> {}]

Init ==
    /\ pc = "new"
    /\ cl = NoCluster
    /\ out = NoCall
    /\ call = NoCall
    /\ errCh = <<>>
    /\ wg = 0
    /\ task = <<>>
    /\ fnErrs = {}
    /\ other = IdleCaller

CallNewClusterWithGen ==
    /\ pc = "new"
    /\ \E dbs \in PlacementLists, nshards \in ShardCounts, gen \in Gens :
         LET c == NewClusterWithGen(dbs, nshards, gen)
         IN  /\ out' = [op |-> "NewClusterWithGen", dbs |-> dbs,
                        nshards |-> nshards, gen |-> gen, val |-> c]
             /\ IF IsPanic(c)
                THEN pc' = "panic" /\ cl' = cl
                ELSE pc' = "ready" /\ cl' = c
    /\ UNCHANGED fanVars

CallDB ==
    /\ pc = "ready"
    /\ \E number \in Numbers :
         out' = [op |-> "DB", number |-> number, val |-> DB(cl, number)]
    /\ UNCHANGED <<pc, cl>>
    /\ UNCHANGED fanVars

CallShard ==
    /\ pc = "ready"
    /\ \E number \in Numbers :
         out' = [op |-> "Shard", number |-> number, val |-> Shard(cl, number)]
    /\ UNCHANGED <<pc, cl>>
    /\ UNCHANGED fanVars

\* Shards is tried with nil and with every server
CallShards ==
    /\ pc = "ready"
    /\ \E db \in Servers \cup {Nil} :
         out' = [op |-> "Shards", db |-> db, val |-> Shards(cl, db)]
    /\ UNCHANGED <<pc, cl>>
    /\ UNCHANGED fanVars

\* Close is tried with every set of servers whose Close fails
CallClose ==
    /\ pc = "ready"
    /\ \E failing \in SUBSET Servers :
         LET r == Close(cl, failing)
         IN  out' = [op |-> "Close", failing |-> failing,
                     closed |-> r.closed, val |-> r.val]
    /\ UNCHANGED <<pc, cl>>
    /\ UNCHANGED fanVars

\* the sizes tried: none, negative, and up to more than any shard count
Sizes == -1..(MaxNShards + 1)

CallSubCluster ==
    /\ pc = "ready"
    /\ \E number \in Numbers, size \in Sizes :
         out' = [op |-> "SubCluster", number |-> number, size |-> size,
                 val |-> SubCluster(cl, number, size)]
    /\ UNCHANGED <<pc, cl>>
    /\ UNCHANGED fanVars

Next ==
    \/ CallNewClusterWithGen
    \/ CallDB
    \/ CallShard
    \/ CallShards
    \/ CallClose
    \/ CallSubCluster

Spec == Init /\ [][Next]_vars

----------------------------------------------------------------------------
(* Properties of construction and of the lookups, checked under Spec. *)

\* the generator NewClusterWithGen uses for the argument gen
GenOf(gen) == IF gen = Nil THEN DefaultIdGen ELSE gen

\* the server a shard handle was derived from
BoundServer(shard) == [shard EXCEPT !.params = <<>>]

Constructed == out.op = "NewClusterWithGen"

\* C1's precondition on the arguments of NewClusterWithGen
ValidArgs ==
    /\ Len(out.dbs) >= 1
    /\ out.nshards >= Len(out.dbs)
    /\ out.nshards % Len(out.dbs) = 0
    /\ out.nshards <= NumShards(GenOf(out.gen))
    /\ Len(out.dbs) <= NumShards(GenOf(out.gen))

\* C1: for every placement list of length L >= 1 and every shardCount that is
\* a multiple of L, at least L, both within the id scheme's maximum,
\* NewClusterWithGen succeeds, the cluster has shardCount shards and shard i
\* is bound to placementList[i % L], also when the list repeats a server.
C1_RoundRobinPlacement ==
    (Constructed /\ ValidArgs) =>
        /\ ~IsPanic(out.val)
        /\ pc = "ready"
        /\ cl = out.val
        /\ cl.dbs = out.dbs
        /\ Len(cl.shards) = out.nshards
        /\ \A i \in 0..(out.nshards - 1) :
             BoundServer(cl.shards[i + 1]) = out.dbs[(i % Len(out.dbs)) + 1]

\* a cluster of 4 shards on the placement list [A, A]: the list repeats a
\* server and every entry of the list gets two shards
C1_Witness ==
    /\ Constructed
    /\ ValidArgs
    /\ out.dbs = <<Server("A"), Server("A")>>
    /\ out.nshards = 4
    /\ pc = "ready"

\* the cases C2 lists, on the arguments of NewClusterWithGen ("number of
\* servers" is the length of the server list)
AbortCase ==
    \/ Len(out.dbs) = 0
    \/ out.nshards = 0
    \/ out.nshards < Len(out.dbs)
    \/ out.nshards % Len(out.dbs) # 0
    \/ out.nshards > NumShards(GenOf(out.gen))
    \/ Len(out.dbs) > NumShards(GenOf(out.gen))

\* C2: NewClusterWithGen panics and yields no Cluster when the server list is
\* empty, shardCount is 0, shardCount is less than the number of servers,
\* shardCount is not a multiple of the number of servers, or shardCount or
\* the number of servers exceeds gen.NumShards(); in no other case it panics.
C2_AbortsExactlyOnInvalidArgs ==
    Constructed =>
        /\ IsPanic(out.val) <=> AbortCase
        /\ IsPanic(out.val) => (pc = "panic" /\ cl = NoCluster)

\* 3 shards on 2 servers: within every limit, but not evenly divisible
C2_Witness ==
    /\ Constructed
    /\ Len(out.dbs) = 2
    /\ out.nshards = 3
    /\ out.gen = Nil
    /\ IsPanic(out.val)
    /\ pc = "panic"

\* C9: for every number, negative ones included, Shard(number) does not fail
\* and returns shards[r], r the floor-mod remainder of number modulo
\* shardCount.
C9_ShardFloorMod ==
    out.op = "Shard" =>
        /\ ~IsPanic(out.val)
        /\ out.val = cl.shards[(out.number % Len(cl.shards)) + 1]

\* the lookup the last call made, applied to another number
Lookup(number) == IF out.op = "DB" THEN DB(cl, number) ELSE Shard(cl, number)

\* C10: DB and Shard are periodic with period shardCount: for all number,
\* DB(number) = DB(number + shardCount), Shard(number) = Shard(number +
\* shardCount).
C10_Periodic ==
    out.op \in {"DB", "Shard"} =>
        /\ ~IsPanic(out.val)
        /\ ~IsPanic(Lookup(out.number + Len(cl.shards)))
        /\ out.val = Lookup(out.number + Len(cl.shards))

\* the servers of the placement list, as a set
PlacedServers == {cl.dbs[k] : k \in 1..Len(cl.dbs)}

\* C11: for every number >= 0, DB(number), computed with the double
\* modulus, is placementList[number mod L] and is the server Shard(number)
\* is bound to.
C11_DBIsPlacementOfNumber ==
    (out.op = "DB" /\ out.number >= 0) =>
        /\ ~IsPanic(out.val)
        /\ out.val = cl.dbs[(out.number % Len(cl.dbs)) + 1]
        /\ ~IsPanic(Shard(cl, out.number))
        /\ out.val = BoundServer(Shard(cl, out.number))

\* servers [A, B] with 4 shards: DB(5) is B
C11_Witness ==
    /\ out.op = "DB"
    /\ out.number = 5
    /\ cl.dbs = <<Server("A"), Server("B")>>
    /\ Len(cl.shards) = 4
    /\ out.val = Server("B")

\* how often shard handle sh occurs in the lists Shards(s) of the placed
\* servers s
Occurrences(sh) ==
    Cardinality({dk \in PlacedServers \X (1..Len(cl.shards)) :
                    /\ dk[2] <= Len(Shards(cl, dk[1]))
                    /\ Shards(cl, dk[1])[dk[2]] = sh})

\* C12: Shards(nil) is all shards in index order; Shards(s) is, in ascending
\* index order and without repetition, exactly the shards bound to s; so
\* every shard is in the list of exactly one server, exactly once.
C12_ShardsOfServer ==
    out.op = "Shards" =>
        /\ out.db = Nil => out.val = cl.shards
        /\ out.db # Nil =>
             out.val = SelectSeq(cl.shards, LAMBDA sh : BoundServer(sh) = out.db)
        /\ \A i \in 1..Len(cl.shards) : Occurrences(cl.shards[i]) = 1

\* placement list [A, A, B] with 6 shards: Shards(A) has four shards
C12_Witness ==
    /\ out.op = "Shards"
    /\ out.db = Server("A")
    /\ cl.dbs = <<Server("A"), Server("A"), Server("B")>>
    /\ Len(cl.shards) = 6
    /\ Len(out.val) = 4

\* the positions of the placement list whose server fails to close
FailingAt == {k \in 1..Len(cl.dbs) : cl.dbs[k] \in out.failing}

\* C13: Close calls Close on every distinct server exactly once, goes on
\* after a failure, and returns the error of the first failing server in
\* server-list order, nil when none fails.
C13_CloseEachServerOnce ==
    out.op = "Close" =>
        /\ \A k \in 1..Len(out.closed) : out.closed[k] \in PlacedServers
        /\ \A db \in PlacedServers :
             Cardinality({k \in 1..Len(out.closed) : out.closed[k] = db}) = 1
        /\ FailingAt = {} => out.val = Nil
        /\ FailingAt # {} =>
             out.val = CloseErr(cl.dbs[CHOOSE k \in FailingAt :
                                          \A j \in FailingAt : k <= j])

\* placement list [B, A, B], both servers fail: both are closed, B's error
\* is returned
C13_Witness ==
    /\ out.op = "Close"
    /\ cl.dbs = <<Server("B"), Server("A"), Server("B")>>
    /\ out.failing = Servers
    /\ out.closed = <<Server("B"), Server("A")>>
    /\ out.val = CloseErr(Server("B"))

SubClusterCase == out.op = "SubCluster" /\ out.number >= 0 /\ out.size > 0

\* size' of C14, and the step and offset it gives
SizeP == IF out.size < Len(cl.shards) THEN out.size ELSE Len(cl.shards)

StepP == Len(cl.shards) \div SizeP

OffsetP == (out.number % StepP) * SizeP

\* C14: for number >= 0 and size > 0, SubCluster(number, size) does not fail
\* and its window is shards[offset .. offset+size') in parent order, with
\* size' = min(size, shardCount), step = shardCount div size', offset =
\* (number mod step) * size'; offset + size' <= shardCount.
C14_SubClusterWindow ==
    SubClusterCase =>
        /\ ~IsPanic(out.val)
        /\ OffsetP + SizeP <= Len(cl.shards)
        /\ Len(out.val.shards) = SizeP
        /\ out.val.shards = SubSeq(cl.shards, OffsetP + 1, OffsetP + SizeP)
        /\ out.val.cl = cl

\* on a 4-shard cluster SubCluster(1, 2) is shards [2, 3]
C14_Witness ==
    /\ SubClusterCase
    /\ Len(cl.shards) = 4
    /\ out.number = 1
    /\ out.size = 2
    /\ out.val.shards = <<cl.shards[3], cl.shards[4]>>

\* the numbers other windows are compared over: more than a full period
WindowNumbers == 0..(MaxNumber + Len(cl.shards))

Elems(w) == {w[k] : k \in 1..Len(w)}

\* C15: for a fixed size > 0 the windows of SubCluster(a, size) and
\* SubCluster(b, size), a, b >= 0, are identical when a mod step = b mod
\* step and share no shard otherwise: exactly step distinct windows.
C15_WindowsPeriodicDisjoint ==
    SubClusterCase =>
        /\ ~IsPanic(out.val)
        /\ \A b \in WindowNumbers :
             /\ ~IsPanic(SubCluster(cl, b, out.size))
             /\ IF b % StepP = out.number % StepP
                THEN SubCluster(cl, b, out.size).shards = out.val.shards
                ELSE Elems(SubCluster(cl, b, out.size).shards)
                        \cap Elems(out.val.shards) = {}
        /\ Cardinality({SubCluster(cl, b, out.size).shards :
                           b \in WindowNumbers}) = StepP

\* 6 shards, size 2: three windows; SubCluster(4, 2) is the second
C15_Witness ==
    /\ SubClusterCase
    /\ Len(cl.shards) = 6
    /\ out.size = 2
    /\ out.number = 4
    /\ StepP = 3
    /\ out.val.shards = <<cl.shards[3], cl.shards[4]>>

Uneven ==
    /\ SubClusterCase
    /\ out.size <= Len(cl.shards)
    /\ Len(cl.shards) % out.size # 0

\* C19: when size (1 <= size <= shardCount) does not divide shardCount, the
\* shards with index >= step * size are in the window of no
\* SubCluster(number, size), number >= 0; the union of all windows is
\* shards [0, step * size); SubCluster reports no error.
C19_RemainderShardsUnreachable ==
    Uneven =>
        /\ ~IsPanic(out.val)
        /\ \A b \in WindowNumbers :
             /\ ~IsPanic(SubCluster(cl, b, out.size))
             /\ \A i \in (StepP * out.size + 1)..Len(cl.shards) :
                  cl.shards[i] \notin Elems(SubCluster(cl, b, out.size).shards)
        /\ UNION {Elems(SubCluster(cl, b, out.size).shards) :
                     b \in WindowNumbers}
              = {cl.shards[i] : i \in 1..(StepP * out.size)}

\* 5 shards, size 2: SubCluster(1, 2) is shards [2, 3], the last window;
\* shard 4 is in none
C19_Witness ==
    /\ Uneven
    /\ Len(cl.shards) = 5
    /\ out.size = 2
    /\ out.number = 1
    /\ out.val.shards = <<cl.shards[3], cl.shards[4]>>

----------------------------------------------------------------------------
(* Fan-out: ForEachDB, ForEachShard, ForEachNShards.                       *)
(*                                                                         *)
(* ForEachDB starts one goroutine per server; task[s] is the goroutine of  *)
(* cl.servers[s].  What it runs is the function ForEachDB was given: the   *)
(* caller's fn (ForEachDB), the sequential loop of ForEachShard, or the    *)
(* dispatcher of ForEachNShards, which starts one goroutine per shard of   *)
(* the server, task[s].sub[i] for the shard at position i of cl.shards.    *)
(* The caller's fn returns nil or an error of its own choosing: Err(h) is  *)
(* the error of the invocation on handle h.                                *)

\* longest placement list of the clusters fan-out is run on
MaxFanDBs == 4
\* largest shard count of the clusters fan-out is run on
MaxFanShards == 4
\* ForEachNShards is run with every n in 1..MaxN
MaxN == 2

Err(h) == [err |-> h]

\* select { case ch <- v: default: } on a channel of capacity 1
TrySend_Drops(ch, v) == ch
TrySend(ch, v) == IF Len(ch) < 1 THEN Append(ch, v) ELSE ch

\* select { case err := <-ch: return err; default: return nil }
TryRecv(ch) == IF Len(ch) > 0 THEN Head(ch) ELSE Nil

\* wg.Wait returns when the counter is zero
WaitDone_Never(w) == TRUE
WaitDone(w) == w = 0

\* the servers ForEachDB ranges over
FanTargets_Dbs(c) == c.dbs
FanTargets(c) == c.servers

\* the shard loops go on (continue) unless shard.Options() == db.Options()
OnServer_Any(shard, db) == TRUE
OnServer(shard, db) == Options(shard) = Options(db)

\* ForEachShard keeps the first error of the server's loop
KeepFirst_Last(firstErr, err) == IF err # Nil THEN err ELSE firstErr
KeepFirst(firstErr, err) == IF err # Nil /\ firstErr = Nil THEN err ELSE firstErr

\* limit := make(chan struct{}, n)
LimitCap_Double(n) == 2 * n
LimitCap_Unbuffered(n) == 0
LimitCap_AtLeastOne(n) == IF n < 1 THEN 1 ELSE n
LimitCap(n) == n

NoSub == [pc |-> "none"]

\* the goroutine of one server, as ForEachDB starts it
NewTask(c, db) ==
    [db |-> db, pc |-> "go", i |-> 0, firstErr |-> Nil, ret |-> Nil,
     errCh |-> <<>>, limit |-> 0, wg |-> 0,
     sub |-> [i \in 1..Len(c.shards) |-> NoSub],
     dbCalls |-> 0,
     shardCalls |-> [i \in 1..Len(c.shards) |-> 0]]

\* ForEachDB up to wg.Wait: make errCh, wg.Add, start the goroutines
StartForEachDB(op, n) ==
    /\ pc = "ready"
    /\ pc' = "wait"
    /\ call' = [op |-> op, n |-> n]
    /\ errCh' = <<>>
    /\ wg' = Len(FanTargets(cl))
    /\ task' = [s \in 1..Len(FanTargets(cl)) |-> NewTask(cl, FanTargets(cl)[s])]
    /\ fnErrs' = {}
    /\ UNCHANGED <<cl, other, out>>

CallForEachDB == StartForEachDB("ForEachDB", 0)

CallForEachShard == StartForEachDB("ForEachShard", 0)

CallForEachNShards == \E n \in 1..MaxN : StartForEachDB("ForEachNShards", n)

Tasks == DOMAIN task

\* what fn may return when invoked on handle h
FnResults(h) == {Nil, Err(h)}

(* ---- the goroutine of ForEachDB, run on the caller's fn ---- *)

\* fn(db) is invoked
DBInvoke(s) ==
    /\ call.op = "ForEachDB"
    /\ task[s].pc = "go"
    /\ task' = [task EXCEPT ![s].pc = "infn", ![s].dbCalls = @ + 1]
    /\ UNCHANGED <<pc, cl, other, out, call, errCh, wg, fnErrs>>

\* the function ForEachDB was given has returned err: if err != nil, the
\* non-blocking send on errCh; the deferred wg.Done is still to run
Deliver(s, err) ==
    /\ errCh' = IF err # Nil THEN TrySend(errCh, err) ELSE errCh
    /\ task' = [task EXCEPT ![s].pc = "wgdone", ![s].ret = err]

\* fn(db) returns
DBReturn(s) ==
    /\ call.op = "ForEachDB"
    /\ task[s].pc = "infn"
    /\ \E err \in FnResults(task[s].db) :
         /\ Deliver(s, err)
         /\ fnErrs' = fnErrs \cup ({err} \ {Nil})
    /\ UNCHANGED <<pc, cl, other, out, call, wg>>

\* the deferred wg.Done
TaskDone(s) ==
    /\ task[s].pc = "wgdone"
    /\ wg' = wg - 1
    /\ task' = [task EXCEPT ![s].pc = "done"]
    /\ UNCHANGED <<pc, cl, other, out, call, errCh, fnErrs>>

\* wg.Wait returns and ForEachDB returns what errCh holds
Return ==
    /\ pc = "wait"
    /\ WaitDone(wg)
    /\ pc' = "returned"
    /\ out' = [op |-> call.op, n |-> call.n, val |-> TryRecv(errCh)]
    /\ errCh' = IF Len(errCh) > 0 THEN Tail(errCh) ELSE errCh
    /\ UNCHANGED <<cl, other, call, wg, task, fnErrs>>

(* ---- the function ForEachShard hands to ForEachDB ---- *)

\* the shards the loop ranges over: cl.shards, which is the cluster's shards
\* in a call on a Cluster and the window in a call on a SubCluster
Ranged_Parent == cl.shards
Ranged == IF "shards" \in DOMAIN call THEN call.shards ELSE cl.shards

\* the position of the loop over cl.shards: the shard it is at
AtShard(s) == Ranged[task[s].i + 1]

LoopEnded(s) == task[s].i >= Len(Ranged)

ShardEnter(s) ==
    /\ call.op = "ForEachShard"
    /\ task[s].pc = "go"
    /\ task' = [task EXCEPT ![s].pc = "loop", ![s].i = 0, ![s].firstErr = Nil]
    /\ UNCHANGED <<pc, cl, other, out, call, errCh, wg, fnErrs>>

\* the shard is on another server: continue
ShardSkip(s) ==
    /\ call.op = "ForEachShard"
    /\ task[s].pc = "loop"
    /\ ~LoopEnded(s)
    /\ ~OnServer(AtShard(s), task[s].db)
    /\ task' = [task EXCEPT ![s].i = @ + 1]
    /\ UNCHANGED <<pc, cl, other, out, call, errCh, wg, fnErrs>>

\* fn(shard) is invoked
ShardInvoke(s) ==
    /\ call.op = "ForEachShard"
    /\ task[s].pc = "loop"
    /\ ~LoopEnded(s)
    /\ OnServer(AtShard(s), task[s].db)
    /\ task' = [task EXCEPT ![s].pc = "infn",
                            ![s].shardCalls[task[s].i + 1] = @ + 1]
    /\ UNCHANGED <<pc, cl, other, out, call, errCh, wg, fnErrs>>

\* fn(shard) returns: firstErr keeps the first error, the loop goes on
ShardReturn(s) ==
    /\ call.op = "ForEachShard"
    /\ task[s].pc = "infn"
    /\ \E err \in FnResults(AtShard(s)) :
         /\ task' = [task EXCEPT ![s].pc = "loop",
                                 ![s].firstErr = KeepFirst(@, err),
                                 ![s].i = @ + 1]
         /\ fnErrs' = fnErrs \cup ({err} \ {Nil})
    /\ UNCHANGED <<pc, cl, other, out, call, errCh, wg>>

\* the loop is over: return firstErr
ShardExit(s) ==
    /\ call.op = "ForEachShard"
    /\ task[s].pc = "loop"
    /\ LoopEnded(s)
    /\ Deliver(s, task[s].firstErr)
    /\ UNCHANGED <<pc, cl, other, out, call, wg, fnErrs>>

(* ---- the function ForEachNShards hands to ForEachDB ---- *)

\* make the server's wg, errCh and limit
NEnter(s) ==
    /\ call.op = "ForEachNShards"
    /\ task[s].pc = "go"
    /\ task' = [task EXCEPT ![s].pc = "loop", ![s].i = 0, ![s].errCh = <<>>,
                            ![s].limit = 0, ![s].wg = 0]
    /\ UNCHANGED <<pc, cl, other, out, call, errCh, wg, fnErrs>>

NSkip(s) ==
    /\ call.op = "ForEachNShards"
    /\ task[s].pc = "loop"
    /\ ~LoopEnded(s)
    /\ ~OnServer(AtShard(s), task[s].db)
    /\ task' = [task EXCEPT ![s].i = @ + 1]
    /\ UNCHANGED <<pc, cl, other, out, call, errCh, wg, fnErrs>>

\* limit <- struct{}{} (blocks while limit is full), wg.Add(1), go func(shard)
NSpawn(s) ==
    /\ call.op = "ForEachNShards"
    /\ task[s].pc = "loop"
    /\ ~LoopEnded(s)
    /\ OnServer(AtShard(s), task[s].db)
    /\ task[s].limit < LimitCap(call.n)
    /\ task' = [task EXCEPT ![s].limit = @ + 1,
                            ![s].wg = @ + 1,
                            ![s].sub[task[s].i + 1].pc = "go",
                            ![s].i = @ + 1]
    /\ UNCHANGED <<pc, cl, other, out, call, errCh, wg, fnErrs>>

\* the shard's goroutine invokes fn(shard)
NSubInvoke(s, i) ==
    /\ task[s].sub[i].pc = "go"
    /\ task' = [task EXCEPT ![s].sub[i].pc = "infn",
                            ![s].shardCalls[i] = @ + 1]
    /\ UNCHANGED <<pc, cl, other, out, call, errCh, wg, fnErrs>>

\* fn(shard) returns err: if err != nil, the non-blocking send on the
\* server's errCh
NSubReturn(s, i) ==
    /\ task[s].sub[i].pc = "infn"
    /\ \E err \in FnResults(Ranged[i]) :
         /\ task' = [task EXCEPT
                       ![s].sub[i].pc = "deferred",
                       ![s].errCh = IF err # Nil THEN TrySend(@, err) ELSE @]
         /\ fnErrs' = fnErrs \cup ({err} \ {Nil})
    /\ UNCHANGED <<pc, cl, other, out, call, errCh, wg>>

\* the deferred function: <-limit, wg.Done
NSubDeferred(s, i) ==
    /\ task[s].sub[i].pc = "deferred"
    /\ task[s].limit > 0
    /\ task' = [task EXCEPT ![s].sub[i].pc = "done",
                            ![s].limit = @ - 1,
                            ![s].wg = @ - 1]
    /\ UNCHANGED <<pc, cl, other, out, call, errCh, wg, fnErrs>>

\* the loop is over: wg.Wait, then return what the server's errCh holds
NWait(s) ==
    /\ call.op = "ForEachNShards"
    /\ task[s].pc = "loop"
    /\ LoopEnded(s)
    /\ WaitDone(task[s].wg)
    /\ errCh' = IF TryRecv(task[s].errCh) # Nil
                THEN TrySend(errCh, TryRecv(task[s].errCh)) ELSE errCh
    /\ task' = [task EXCEPT ![s].pc = "wgdone",
                            ![s].ret = TryRecv(task[s].errCh),
                            ![s].errCh = IF Len(@) > 0 THEN Tail(@) ELSE @]
    /\ UNCHANGED <<pc, cl, other, out, call, wg, fnErrs>>

----------------------------------------------------------------------------
(* The fan-out program: one fan-out call on a constructed cluster. *)

\* the placement lists: the server listed first is called A
FanLists ==
    {dbs \in UNION {[1..n -> Servers] : n \in 1..MaxFanDBs} : dbs[1] = Server("A")}

FanClusters ==
    {c \in {NewClusterWithGen(dbs, nshards, Nil) :
               dbs \in FanLists, nshards \in 1..MaxFanShards} : ~IsPanic(c)}

FanInit ==
    /\ pc = "ready"
    /\ cl \in FanClusters
    /\ out = NoCall
    /\ call = NoCall
    /\ errCh = <<>>
    /\ wg = 0
    /\ task = <<>>
    /\ fnErrs = {}
    /\ other = IdleCaller

ShardIdx == 1..Len(cl.shards)

FanNext ==
    \/ CallForEachDB
    \/ CallForEachShard
    \/ CallForEachNShards
    \/ \E s \in Tasks : DBInvoke(s)
    \/ \E s \in Tasks : DBReturn(s)
    \/ \E s \in Tasks : TaskDone(s)
    \/ Return
    \/ \E s \in Tasks : ShardEnter(s)
    \/ \E s \in Tasks : ShardSkip(s)
    \/ \E s \in Tasks : ShardInvoke(s)
    \/ \E s \in Tasks : ShardReturn(s)
    \/ \E s \in Tasks : ShardExit(s)
    \/ \E s \in Tasks : NEnter(s)
    \/ \E s \in Tasks : NSkip(s)
    \/ \E s \in Tasks : NSpawn(s)
    \/ \E s \in Tasks, i \in ShardIdx : NSubInvoke(s, i)
    \/ \E s \in Tasks, i \in ShardIdx : NSubReturn(s, i)
    \/ \E s \in Tasks, i \in ShardIdx : NSubDeferred(s, i)
    \/ \E s \in Tasks : NWait(s)

FanSpec == FanInit /\ [][FanNext]_vars

----------------------------------------------------------------------------
(* Properties of the fan-out calls, checked under FanSpec. *)

\* the distinct servers of the cluster: the entries of the placement list
DistinctSet == {cl.dbs[k] : k \in 1..Len(cl.dbs)}

\* the server shard i (a position of cl.shards) is placed on
ServerOfShard(i) == cl.dbs[((i - 1) % Len(cl.dbs)) + 1]

ShardsOf(db) == {i \in ShardIdx : ServerOfShard(i) = db}

RECURSIVE SumTo(_, _)
SumTo(f, k) == IF k = 0 THEN 0 ELSE f[k] + SumTo(f, k - 1)

\* how often fn has been invoked on server db, on shard i, in this call
DBCalls(db) ==
    SumTo([s \in Tasks |-> IF task[s].db = db THEN task[s].dbCalls ELSE 0],
          Len(task))

ShardCalls(i) == SumTo([s \in Tasks |-> task[s].shardCalls[i]], Len(task))

\* the invocations of fn on shards that are in progress: <<s, i>> is the one
\* task s (or the goroutine it started) makes on shard i
InProgress ==
    {si \in Tasks \X ShardIdx :
        \/ /\ call.op = "ForEachShard"
           /\ task[si[1]].pc = "infn"
           /\ task[si[1]].i + 1 = si[2]
        \/ task[si[1]].sub[si[2]].pc = "infn"}

InProgressOn(db) == {si \in InProgress : ServerOfShard(si[2]) = db}

DBsInProgress == {s \in Tasks : call.op = "ForEachDB" /\ task[s].pc = "infn"}

Started == pc \in {"wait", "returned"}

Returned == pc = "returned"

\* C3: one ForEachDB call invokes fn exactly once for each distinct server
\* of the cluster and for no other handle, also when the placement list
\* holds the same server several times.
C3_ForEachDBOncePerServer ==
    (Started /\ call.op = "ForEachDB") =>
        /\ \A s \in Tasks : task[s].dbCalls > 0 => task[s].db \in DistinctSet
        /\ \A s \in Tasks, i \in ShardIdx : task[s].shardCalls[i] = 0
        /\ \A db \in DistinctSet : DBCalls(db) <= 1
        /\ Returned => \A db \in DistinctSet : DBCalls(db) = 1

\* ForEachDB has returned on the placement list [A, A, B, B]: two invocations
C3_Witness ==
    /\ Returned
    /\ out.op = "ForEachDB"
    /\ cl.dbs = <<Server("A"), Server("A"), Server("B"), Server("B")>>
    /\ DBCalls(Server("A")) = 1
    /\ DBCalls(Server("B")) = 1

\* the shards of one server are visited in ascending order, one at a time:
\* when fn has been invoked on a shard, it has been invoked on, and has
\* returned from, every shard of the same server with a lower index
AscendingOneByOne ==
    \A i \in ShardIdx, k \in ShardIdx :
        (ShardCalls(i) > 0 /\ k < i /\ ServerOfShard(k) = ServerOfShard(i)) =>
            /\ ShardCalls(k) = 1
            /\ \A s \in Tasks : <<s, k>> \notin InProgress

\* C4: one ForEachShard call invokes fn exactly once for every shard of the
\* cluster; on any single server the invocations happen one after another in
\* strictly ascending shard-index order.
C4_ForEachShardOnceAscending ==
    (Started /\ call.op = "ForEachShard") =>
        /\ \A s \in Tasks : task[s].dbCalls = 0
        /\ \A i \in ShardIdx : ShardCalls(i) <= 1
        /\ \A db \in DistinctSet : Cardinality(InProgressOn(db)) <= 1
        /\ AscendingOneByOne
        /\ Returned => \A i \in ShardIdx : ShardCalls(i) = 1

\* ForEachShard has returned on servers [A, B] with two shards each
C4_Witness ==
    /\ Returned
    /\ out.op = "ForEachShard"
    /\ cl.dbs = <<Server("A"), Server("B")>>
    /\ Len(cl.shards) = 4
    /\ \A i \in ShardIdx : ShardCalls(i) = 1

\* C5: during one ForEachNShards(n, fn) call, n >= 1, at most n invocations
\* of fn are in progress on shards of the same server and at most
\* n * (number of distinct servers) in total, at every instant.
C5_AtMostNPerServer ==
    (Started /\ call.op = "ForEachNShards" /\ call.n >= 1) =>
        /\ \A db \in DistinctSet : Cardinality(InProgressOn(db)) <= call.n
        /\ Cardinality(InProgress) <= call.n * Cardinality(DistinctSet)

\* both bounds are met: n = 2, two servers, four invocations in progress
C5_Witness ==
    /\ call.op = "ForEachNShards"
    /\ call.n = 2
    /\ Cardinality(DistinctSet) = 2
    /\ \A db \in DistinctSet : Cardinality(InProgressOn(db)) = 2
    /\ Cardinality(InProgress) = 4

FanOut == out.op \in {"ForEachDB", "ForEachShard", "ForEachNShards"}

\* C6: ForEachDB, ForEachShard and ForEachNShards (n >= 1) return nil if
\* and only if no invocation of fn in the call returned an error; otherwise
\* they return one error, which some invocation of fn in the call returned
\* (an error a server's group has captured is not lost on the way out).
C6_ReturnsOneOfTheErrors ==
    (Returned /\ FanOut /\ (out.op = "ForEachNShards" => out.n >= 1)) =>
        /\ out.val = Nil <=> fnErrs = {}
        /\ out.val # Nil => out.val \in fnErrs
        /\ \A s \in Tasks : task[s].ret # Nil => out.val # Nil

\* ForEachNShards returned one of three errors its invocations returned
C6_Witness ==
    /\ Returned
    /\ out.op = "ForEachNShards"
    /\ Cardinality(fnErrs) = 3
    /\ out.val \in fnErrs
    /\ Cardinality(DistinctSet) = 2

\* every goroutine of the call has run to its end
AllFinished ==
    /\ \A s \in Tasks : task[s].pc = "done"
    /\ \A s \in Tasks, i \in ShardIdx : task[s].sub[i].pc \in {"none", "done"}
    /\ InProgress = {}
    /\ DBsInProgress = {}

\* C7: no cancellation: an invocation of fn that returns an error prevents
\* no other invocation; when the call returns, fn has been invoked exactly
\* once on every server (ForEachDB) or every shard (ForEachShard,
\* ForEachNShards with n >= 1) and every invocation has finished.
C7_NoCancellation ==
    (Returned /\ FanOut /\ (out.op = "ForEachNShards" => out.n >= 1)) =>
        /\ AllFinished
        /\ out.op = "ForEachDB" => \A db \in DistinctSet : DBCalls(db) = 1
        /\ out.op # "ForEachDB" => \A i \in ShardIdx : ShardCalls(i) = 1

\* ForEachShard returned after fn failed on the first of server A's shards:
\* fn has still been invoked on all four shards
C7_Witness ==
    /\ Returned
    /\ out.op = "ForEachShard"
    /\ Len(cl.dbs) = 1
    /\ Len(cl.shards) = 4
    /\ Err(cl.shards[1]) \in fnErrs
    /\ \A i \in ShardIdx : ShardCalls(i) = 1

\* the shards of server db on which fn returned an error
Failed(db) == {i \in ShardsOf(db) : Err(cl.shards[i]) \in fnErrs}

Lowest(S) == CHOOSE i \in S : \A k \in S : i <= k

\* the error of the lowest-index failing shard of db, nil when none failed
LowestFailing(db) ==
    IF Failed(db) = {} THEN Nil ELSE Err(cl.shards[Lowest(Failed(db))])

OneAtATime ==
    \/ call.op = "ForEachShard"
    \/ call.op = "ForEachNShards" /\ call.n = 1

\* C8: ForEachNShards(1, fn) and ForEachShard(fn) are equivalent: both invoke
\* fn exactly once on every shard, on each server one shard after the other
\* in ascending order, and the error a server's group ends with is, in both,
\* the error of the lowest-index failing shard of that server; the call
\* returns the error of one of the groups.
C8_NShards1LikeForEachShard ==
    (Started /\ OneAtATime) =>
        /\ \A i \in ShardIdx : ShardCalls(i) <= 1
        /\ \A db \in DistinctSet : Cardinality(InProgressOn(db)) <= 1
        /\ AscendingOneByOne
        /\ \A s \in Tasks : task[s].pc \in {"wgdone", "done"} =>
                                task[s].ret = LowestFailing(task[s].db)
        /\ Returned =>
             /\ \A i \in ShardIdx : ShardCalls(i) = 1
             /\ out.val \in {LowestFailing(db) : db \in DistinctSet}
             /\ out.val = Nil <=> \A db \in DistinctSet : LowestFailing(db) = Nil

\* ForEachNShards(1, fn) returned after fn failed on two shards of server A
C8_Witness ==
    /\ Returned
    /\ out.op = "ForEachNShards"
    /\ out.n = 1
    /\ Cardinality(Failed(Server("A"))) = 2
    /\ out.val = LowestFailing(Server("A"))

----------------------------------------------------------------------------
(* Fan-out on a SubCluster, and ForEachNShards with every n >= 0: one
   fan-out call on a Cluster or on a SubCluster of it, the goroutines
   scheduled fairly. *)

\* longest placement list of the clusters sub-clusters are taken of
MaxSubDBs == 2
\* largest shard count of those clusters
MaxSubShards == 4
\* SubCluster is called with every number in 0..MaxSubNumber
MaxSubNumber == 1
\* and every size in 1..MaxSubSize
MaxSubSize == 2

SubNumbers == 0..MaxSubNumber

SubSizes == 1..MaxSubSize

\* SubCluster.ForEachShard and SubCluster.ForEachNShards up to wg.Wait of
\* cl.cl.ForEachDB: the goroutines are those of the parent's servers, the
\* loops range over the window
StartSubForEachDB(op, n) ==
    \E number \in SubNumbers, size \in SubSizes :
        LET sub == SubCluster(cl, number, size)
        IN  /\ pc = "ready"
            /\ ~IsPanic(sub)
            /\ pc' = "wait"
            /\ call' = [op |-> op, n |-> n, number |-> number, size |-> size,
                        shards |-> sub.shards]
            /\ errCh' = <<>>
            /\ wg' = Len(FanTargets(sub.cl))
            /\ task' = [s \in 1..Len(FanTargets(sub.cl)) |->
                           NewTask(sub.cl, FanTargets(sub.cl)[s])]
            /\ fnErrs' = {}
            /\ UNCHANGED <<cl, other, out>>

CallSubForEachShard == StartSubForEachDB("ForEachShard", 0)

CallSubForEachNShards ==
    \E n \in 0..MaxN : StartSubForEachDB("ForEachNShards", n)

\* Cluster.ForEachNShards with n = 0 as well
CallForEachNShardsFrom0 ==
    \E n \in 0..MaxN : StartForEachDB("ForEachNShards", n)

SubLists ==
    {dbs \in UNION {[1..n -> Servers] : n \in 1..MaxSubDBs} : dbs[1] = Server("A")}

SubClusters ==
    {c \in {NewClusterWithGen(dbs, nshards, Nil) :
               dbs \in SubLists, nshards \in 1..MaxSubShards} : ~IsPanic(c)}

SubInit ==
    /\ pc = "ready"
    /\ cl \in SubClusters
    /\ out = NoCall
    /\ call = NoCall
    /\ errCh = <<>>
    /\ wg = 0
    /\ task = <<>>
    /\ fnErrs = {}
    /\ other = IdleCaller

\* the steps of the goroutines of the running call, and its return
Running ==
    \/ \E s \in Tasks : DBInvoke(s)
    \/ \E s \in Tasks : DBReturn(s)
    \/ \E s \in Tasks : TaskDone(s)
    \/ Return
    \/ \E s \in Tasks : ShardEnter(s)
    \/ \E s \in Tasks : ShardSkip(s)
    \/ \E s \in Tasks : ShardInvoke(s)
    \/ \E s \in Tasks : ShardReturn(s)
    \/ \E s \in Tasks : ShardExit(s)
    \/ \E s \in Tasks : NEnter(s)
    \/ \E s \in Tasks : NSkip(s)
    \/ \E s \in Tasks : NSpawn(s)
    \/ \E s \in Tasks, i \in ShardIdx : NSubInvoke(s, i)
    \/ \E s \in Tasks, i \in ShardIdx : NSubReturn(s, i)
    \/ \E s \in Tasks, i \in ShardIdx : NSubDeferred(s, i)
    \/ \E s \in Tasks : NWait(s)

SubNext ==
    \/ CallForEachDB
    \/ CallForEachShard
    \/ CallForEachNShardsFrom0
    \/ CallSubForEachShard
    \/ CallSubForEachNShards
    \/ Running

\* the Go scheduler runs a goroutine that can take a step: a step of the
\* running call that stays possible is eventually taken
SubSpec == SubInit /\ [][SubNext]_vars /\ WF_vars(Running)

----------------------------------------------------------------------------
(* Properties of the calls on a SubCluster, of termination and of n = 0,
   checked under SubSpec. *)

\* a call on a SubCluster has been started
SubCall == Started /\ "shards" \in DOMAIN call

NAtLeast1 == call.op = "ForEachNShards" => call.n >= 1

\* the positions (in the parent's shard list) of the window SubCluster
\* was asked for
WindowIdx ==
    LET n == Len(cl.shards)
        size == IF call.size < n THEN call.size ELSE n
        step == n \div size
        offset == (call.number % step) * size
    IN  (offset + 1)..(offset + size)

\* how often fn has been invoked on shard handle sh in this call
InvokedOn(sh) ==
    SumTo([j \in 1..Len(Ranged) |-> IF Ranged[j] = sh THEN ShardCalls(j) ELSE 0],
          Len(Ranged))

\* task s is the task of a server that has no shard in the window
Idle(s) == \A i \in WindowIdx : ServerOfShard(i) # task[s].db

\* C16: SubCluster.ForEachShard and SubCluster.ForEachNShards (n >= 1)
\* invoke fn exactly once on every shard of the window and on no shard
\* outside it; the call runs one task for every distinct server of the
\* parent cluster, and a server with no shard in the window gets zero
\* invocations of fn and contributes no error.
C16_SubClusterFanOutOnWindow ==
    (SubCall /\ NAtLeast1) =>
        /\ Len(task) = Cardinality(DistinctSet)
        /\ {task[s].db : s \in Tasks} = DistinctSet
        /\ \A i \in ShardIdx :
             InvokedOn(cl.shards[i]) <= (IF i \in WindowIdx THEN 1 ELSE 0)
        /\ \A j \in ShardIdx : j > Len(Ranged) => ShardCalls(j) = 0
        /\ Returned => \A i \in WindowIdx : InvokedOn(cl.shards[i]) = 1
        /\ \A s \in Tasks :
             Idle(s) => /\ task[s].dbCalls = 0
                        /\ \A j \in ShardIdx : task[s].shardCalls[j] = 0
                        /\ task[s].ret = Nil

\* servers [A, B], SubCluster(0, 1).ForEachShard has returned: fn was invoked
\* on shard 0 only, B's task ran and made no invocation
C16_Witness ==
    /\ SubCall
    /\ Returned
    /\ call.op = "ForEachShard"
    /\ cl.dbs = <<Server("A"), Server("B")>>
    /\ call.shards = <<cl.shards[1]>>
    /\ InvokedOn(cl.shards[1]) = 1
    /\ \E s \in Tasks : Idle(s) /\ task[s].db = Server("B") /\ task[s].pc = "done"

\* C17: every fan-out call terminates: ForEachDB, ForEachShard and
\* ForEachNShards(n, fn) with n >= 1, on Cluster and on SubCluster,
\* eventually return when every invocation of fn returns and the goroutines
\* are scheduled fairly.
C17_FanOutTerminates == [](Started /\ NAtLeast1 => <>Returned)

\* a SubCluster.ForEachNShards call with n = 1 has returned after two
\* invocations that both failed
C17_Witness ==
    /\ SubCall
    /\ Returned
    /\ call.op = "ForEachNShards"
    /\ call.n = 1
    /\ Len(call.shards) = 2
    /\ Cardinality(fnErrs) = 2

\* a goroutine of the call is at limit <- struct{}{}
AtAcquire(s) ==
    /\ task[s].pc = "loop"
    /\ ~LoopEnded(s)
    /\ OnServer(AtShard(s), task[s].db)

\* C20: ForEachNShards(0, fn), on a cluster or a sub-cluster window where
\* some server has a shard, never returns and never invokes fn: the
\* dispatcher of such a server blocks for ever acquiring a slot of the
\* capacity-0 semaphore.
C20_ZeroNeverReturns ==
    (Started /\ call.op = "ForEachNShards" /\ call.n = 0 /\ Len(Ranged) > 0) =>
        /\ ~Returned
        /\ \A j \in ShardIdx : ShardCalls(j) = 0
        /\ \A s \in Tasks : AtAcquire(s) => ~ENABLED NSpawn(s)

\* SubCluster(0, 1).ForEachNShards(0, fn) on servers [A, B]: B's goroutine is
\* done, A's is blocked at the semaphore, nothing can move
C20_Witness ==
    /\ SubCall
    /\ call.op = "ForEachNShards"
    /\ call.n = 0
    /\ cl.dbs = <<Server("A"), Server("B")>>
    /\ \E s \in Tasks : AtAcquire(s)
    /\ \E s \in Tasks : task[s].pc = "done"
    /\ ~ENABLED Running

----------------------------------------------------------------------------
(* Two callers on the same Cluster: each makes one fan-out call, and the
   steps of the two calls interleave in every way. *)

\* largest shard count of the clusters two callers share
MaxTwoShards == 2
\* each caller runs ForEachNShards with every n in 1..MaxTwoN
MaxTwoN == 1

\* the placement lists: every server at most once (lists with repeats are
\* run under FanSpec), the server listed first is called A
TwoLists ==
    {dbs \in UNION {[1..n -> Servers] : n \in 1..Cardinality(Servers)} :
        /\ dbs[1] = Server("A")
        /\ \A j, k \in 1..Len(dbs) : dbs[j] = dbs[k] => j = k}

TwoClusters ==
    {c \in {NewClusterWithGen(dbs, nshards, Nil) :
               dbs \in TwoLists, nshards \in 1..MaxTwoShards} : ~IsPanic(c)}

TwoInit ==
    /\ pc = "ready"
    /\ cl \in TwoClusters
    /\ out = NoCall
    /\ call = NoCall
    /\ errCh = <<>>
    /\ wg = 0
    /\ task = <<>>
    /\ fnErrs = {}
    /\ other = IdleCaller

CallForEachNShardsOfTwo ==
    \E n \in 1..MaxTwoN : StartForEachDB("ForEachNShards", n)

\* the caller whose call the variables pc .. fnErrs describe
Caller ==
    [pc |-> pc, out |-> out, call |-> call, errCh |-> errCh, wg |-> wg,
     task |-> task, fnErrs |-> fnErrs]

\* errCh := make(chan error, 1) is a local of ForEachDB: the channel a
\* caller's goroutines send on and the caller receives from is the one its
\* own call made (theirs is that of the caller the scheduler turns to)
OwnErrCh_Shared(mine, theirs) == mine
OwnErrCh(mine, theirs) == theirs

\* the scheduler turns from one caller, and the goroutines of its call, to
\* the other: wg, the tasks with their limit, wg and errCh, are locals too
Switch ==
    /\ other' = [Caller EXCEPT !.errCh = OwnErrCh(other.errCh, errCh)]
    /\ pc' = other.pc
    /\ out' = other.out
    /\ call' = other.call
    /\ errCh' = OwnErrCh(errCh, other.errCh)
    /\ wg' = other.wg
    /\ task' = other.task
    /\ fnErrs' = other.fnErrs
    /\ UNCHANGED cl

TwoNext ==
    \/ CallForEachDB
    \/ CallForEachShard
    \/ CallForEachNShardsOfTwo
    \/ Running
    \/ Switch

TwoSpec == TwoInit /\ [][TwoNext]_vars

----------------------------------------------------------------------------
(* Properties of two concurrent calls, checked under TwoSpec. *)

\* the invocations of fn on shards in progress in the call of caller c
InProgressOf(c) ==
    {si \in (DOMAIN c.task) \X ShardIdx :
        \/ /\ c.call.op = "ForEachShard"
           /\ c.task[si[1]].pc = "infn"
           /\ c.task[si[1]].i + 1 = si[2]
        \/ c.task[si[1]].sub[si[2]].pc = "infn"}

InProgressOfOn(c, db) == {si \in InProgressOf(c) : ServerOfShard(si[2]) = db}

\* the call of caller c is what it would be alone: what it returned is nil
\* exactly if no fn invocation of this call returned an error, else one of
\* the errors they returned; at most n invocations of it run on one server
Isolated(c) ==
    /\ c.pc = "returned" =>
         /\ c.out.val = Nil <=> c.fnErrs = {}
         /\ c.out.val # Nil => c.out.val \in c.fnErrs
    /\ (c.pc \in {"wait", "returned"} /\ c.call.op = "ForEachNShards") =>
         \A db \in DistinctSet : Cardinality(InProgressOfOn(c, db)) <= c.call.n

\* C18: fan-out calls running concurrently on the same Cluster are isolated:
\* the error slot and the semaphore are per call, so the error a call
\* returns was returned by an fn invocation of that same call, and the
\* bound of n in-progress invocations per server holds for each call
\* separately.
C18_ConcurrentCallsIsolated == Isolated(Caller) /\ Isolated(other)

\* two ForEachNShards(1, fn) calls on one server with two shards are both
\* under way: fn has failed in one of them and in the other it has not, and
\* each has an invocation in progress on the second shard (two on that
\* server, n = 1)
C18_Witness ==
    /\ pc = "wait"
    /\ other.pc = "wait"
    /\ cl.dbs = <<Server("A")>>
    /\ Len(cl.shards) = 2
    /\ call.op = "ForEachNShards"
    /\ other.call.op = "ForEachNShards"
    /\ call.n = 1
    /\ other.call.n = 1
    /\ other.fnErrs = {Err(cl.shards[1])}
    /\ fnErrs = {}
    /\ InProgressOfOn(Caller, Server("A")) = {<<1, 2>>}
    /\ InProgressOfOn(other, Server("A")) = {<<1, 2>>}

====
